---- MODULE Spec2Model ----
(***************************************************************************)
(* Model of src/bot.py: a Telegram moderation bot built on aiogram.        *)
(*                                                                         *)
(* main() initialises the database and then polls; every inbound message   *)
(* is given to the first registered handler whose filter accepts it and    *)
(* runs as its own task on the single event loop.  A task is suspended at  *)
(* each await; one action of the model is one awaited call together with   *)
(* the synchronous code that follows it up to the next await.  The outcome *)
(* of a call (its result, or an exception) is chosen by the environment.   *)
(*                                                                         *)
(* Texts are sequences of one-character strings.                           *)
(***************************************************************************)
EXTENDS Integers, Sequences, FiniteSets, TLC

\* ------------------------------------------------------------------ bounds
\* Number of handler tasks that may be in flight together.
MaxHandlers == 2
\* Number of messages delivered in one run (caps message ids and counters).
MaxMsgs == 2

\* --------------------------------------------------------------- constants
ADMIN_ID == 123456789
BAN_DURATION == 4 * 60 * 60
\* One sender who is the configured admin and one who is not.
Users == {ADMIN_ID, ADMIN_ID + 1}
Chats == {-1001}

BAD_WORDS ==
    { <<"s","a","l","a","k">>, <<"a","p","t","a","l">>,
      <<"o","r","o","s","p","u">>, <<"s","i","k","e","r","i","m">>,
      <<"a","m","k">>, <<"y","a","r","r","a","k">> }

\* ------------------------------------------------------------ sample texts
T_none == << >>
T_clean == <<"h","i">>
T_bad == <<"n","A","M","K","o">>
T_start == <<"/","s","t","a","r","t">>
T_start_bad == <<"/","s","t","a","r","t"," ","a","m","k">>
T_info == <<"/","i","n","f","o">>
T_edit == <<"/","e","d","i","t">>
T_edit_text == <<"/","e","d","i","t"," ","h","i">>
Texts == {T_none, T_clean, T_bad, T_start, T_start_bad, T_info, T_edit, T_edit_text}

\* The messages that arrive: each sample text from the sender who is not the
\* admin, and from the admin those whose handling reads the sender.
Inbound ==
    {[text |-> tx, user |-> ADMIN_ID + 1, chat |-> -1001] : tx \in Texts}
    \cup {[text |-> tx, user |-> ADMIN_ID, chat |-> -1001] :
            tx \in {T_clean, T_edit, T_edit_text}}

\* What the platform and the AI service may answer.
Roles == {"member", "administrator", "creator"}
ChatTypes == {"private", "group", "supergroup", "channel"}
Counts == {2, 5}
AiTexts == {"rewritten"}
\* What datetime.now() may return.
Times == {0, 7}

\* ---------------------------------------------------------- text functions
UpperCase == <<"A","B","C","D","E","F","G","H","I","J","K","L","M",
               "N","O","P","Q","R","S","T","U","V","W","X","Y","Z">>
LowerCase == <<"a","b","c","d","e","f","g","h","i","j","k","l","m",
               "n","o","p","q","r","s","t","u","v","w","x","y","z">>

LowerChar(c) ==
    IF \E i \in 1..Len(UpperCase) : UpperCase[i] = c
    THEN LowerCase[CHOOSE i \in 1..Len(UpperCase) : UpperCase[i] = c]
    ELSE c

\* str.lower()
Lower(s) == [i \in 1..Len(s) |-> LowerChar(s[i])]

\* sub in s
Contains(sub, s) ==
    \E i \in 1..(Len(s) - Len(sub) + 1) : SubSeq(s, i, i + Len(sub) - 1) = sub

\* any(bad_word in lower_text for bad_word in BAD_WORDS)
IsFlagged(text) == \E w \in BAD_WORDS : Contains(w, Lower(text))

Whitespace == {" ", "\n", "\t"}

RECURSIVE LStrip(_)
LStrip(s) == IF s # << >> /\ Head(s) \in Whitespace THEN LStrip(Tail(s)) ELSE s

RECURSIVE RStrip(_)
RStrip(s) ==
    IF s # << >> /\ s[Len(s)] \in Whitespace THEN RStrip(SubSeq(s, 1, Len(s) - 1)) ELSE s

\* str.strip()
Strip(s) == RStrip(LStrip(s))

RECURSIVE TakeToken(_)
TakeToken(s) ==
    IF s = << >> \/ Head(s) \in Whitespace THEN << >>
    ELSE <<Head(s)>> \o TakeToken(Tail(s))

\* text.split(maxsplit=1)[0]: the first whitespace-delimited token
FirstToken(s) == TakeToken(LStrip(s))

RECURSIVE RemoveAll(_, _)
\* s.replace(sub, ""): every non-overlapping occurrence, left to right
RemoveAll(s, sub) ==
    IF Len(s) < Len(sub) THEN s
    ELSE IF SubSeq(s, 1, Len(sub)) = sub
         THEN RemoveAll(SubSeq(s, Len(sub) + 1, Len(s)), sub)
         ELSE <<Head(s)>> \o RemoveAll(Tail(s), sub)

\* message.text.replace("/edit", "").strip()
EditText(text) == Strip(RemoveAll(text, T_edit))

\* The Command(name) filter: the message has text and its first token is
\* "/" followed by name.
CommandMatches(text, name) == text # << >> /\ FirstToken(text) = <<"/">> \o name

\* ------------------------------------------------------------------- state
VARIABLES
    mainPc,     \* position of main(): create_pool, create_table, polling, crashed
    pool,       \* the global pool: "None" or "pool"
    stats,      \* rows of the stats table
    nextId,     \* the SERIAL sequence of stats.id
    tasks,      \* handler tasks, by slot
    received,   \* messages delivered so far (the last message_id)
    processed   \* per (user, chat): update_stats calls that ran to completion

vars == <<mainPc, pool, stats, nextId, tasks, received, processed>>

Slots == 1..MaxHandlers
Pairs == Users \X Chats

NoMsg == [message_id |-> 0, text |-> << >>, user |-> 0, chat |-> 0]

\* A slot with no task.  The fields after msg are the handler's locals:
\* chat_type (chat.type), count, status (member.status), row (row["id"], 0
\* for None), e (the call whose exception is being handled or has escaped),
\* and calls, the calls the task has made so far, in order.
IdleTask ==
    [pc |-> "idle", handler |-> "none", msg |-> NoMsg, chat_type |-> "",
     count |-> 0, status |-> "", row |-> 0, e |-> "", calls |-> << >>]

Call(op, ok, val) == [op |-> op, ok |-> ok, val |-> val]

Ended(t) == t.pc \in {"done", "raised"}
Free(t) == t.pc = "idle" \/ Ended(t)

Init ==
    /\ mainPc = "create_pool"
    /\ pool = "None"
    /\ stats = {}
    /\ nextId = 1
    /\ tasks = [h \in Slots |-> IdleTask]
    /\ received = 0
    /\ processed = [p \in Pairs |-> 0]

\* -------------------------------------------------------------------- main
\* pool = await asyncpg.create_pool(DATABASE_URL)
CreatePool ==
    /\ mainPc = "create_pool"
    /\ \E ok \in BOOLEAN :
         IF ok THEN mainPc' = "create_table" /\ pool' = "pool"
               ELSE mainPc' = "crashed" /\ pool' = pool
    /\ UNCHANGED <<stats, nextId, tasks, received, processed>>

\* CREATE TABLE IF NOT EXISTS stats (...), then main() goes on to start_polling
CreateTable ==
    /\ mainPc = "create_table"
    /\ \E ok \in BOOLEAN : mainPc' = IF ok THEN "polling" ELSE "crashed"
    /\ UNCHANGED <<pool, stats, nextId, tasks, received, processed>>

\* Faulty variant: polling is started without waiting for init_db().
PollingStarted_NoWait == TRUE

\* dp.start_polling(bot) is reached only after init_db() has returned
PollingStarted == mainPc = "polling"

\* ---------------------------------------------------------------- dispatch
\* Faulty variant: the catch-all handler is registered first.
Handlers_CatchAllFirst == <<"moderation", "cmd_start", "cmd_info", "cmd_edit">>

\* The handlers in the order their decorators register them.
Handlers == <<"cmd_start", "cmd_info", "moderation", "cmd_edit">>

\* The filter each handler is registered with.
Accepts(handler, text) ==
    CASE handler = "cmd_start" -> CommandMatches(text, <<"s","t","a","r","t">>)
      [] handler = "cmd_info" -> CommandMatches(text, <<"i","n","f","o">>)
      [] handler = "moderation" -> TRUE
      [] handler = "cmd_edit" -> CommandMatches(text, <<"e","d","i","t">>)

\* The dispatcher calls the first registered handler whose filter accepts.
Resolve(text) ==
    Handlers[CHOOSE i \in 1..Len(Handlers) :
                /\ Accepts(Handlers[i], text)
                /\ \A j \in 1..(i - 1) : ~Accepts(Handlers[j], text)]

\* Faulty variant: the creator is left out of the exempt roles.
Exempt_AdminOnly(status) == status = "administrator"

\* member.status not in ["administrator", "creator"] is false
Exempt(status) == status \in {"administrator", "creator"}

\* Faulty variant: moderation looks the sender's role up before it scans the
\* text, for every message with text.
FirstPc_AlwaysLookup(handler, msg) ==
    CASE handler = "cmd_start" -> "start_answer"
      [] handler = "cmd_info" -> "get_chat"
      [] handler = "moderation" ->
            IF msg.text = << >> THEN "done" ELSE "get_chat_member"
      [] handler = "cmd_edit" ->
            IF msg.user # ADMIN_ID THEN "edit_reject"
            ELSE IF EditText(msg.text) = << >> THEN "edit_enter_text"
            ELSE "edit_generate"

\* Faulty variant: moderation does not return early on a message without text.
FirstPc_NoTextCheck(handler, msg) ==
    CASE handler = "cmd_start" -> "start_answer"
      [] handler = "cmd_info" -> "get_chat"
      [] handler = "moderation" ->
            IF IsFlagged(msg.text) THEN "get_chat_member" ELSE "fetchrow"
      [] handler = "cmd_edit" ->
            IF msg.user # ADMIN_ID THEN "edit_reject"
            ELSE IF EditText(msg.text) = << >> THEN "edit_enter_text"
            ELSE "edit_generate"

\* Where a handler first suspends (or returns) when called with msg.
FirstPc(handler, msg) ==
    CASE handler = "cmd_start" -> "start_answer"
      [] handler = "cmd_info" -> "get_chat"
      [] handler = "moderation" ->
            IF msg.text = << >> THEN "done"
            ELSE IF IsFlagged(msg.text) THEN "get_chat_member"
            ELSE "fetchrow"
      [] handler = "cmd_edit" ->
            IF msg.user # ADMIN_ID THEN "edit_reject"
            ELSE IF EditText(msg.text) = << >> THEN "edit_enter_text"
            ELSE "edit_generate"

NewTask(handler, msg) ==
    [IdleTask EXCEPT !.pc = FirstPc(handler, msg), !.handler = handler, !.msg = msg]

\* The slot a new task takes: the lowest free one.
FreeSlot(h) == Free(tasks[h]) /\ \A g \in 1..(h - 1) : ~Free(tasks[g])

\* An update arrives while polling and is handed to its handler.
Dispatch(h) ==
    /\ PollingStarted
    /\ received < MaxMsgs
    /\ FreeSlot(h)
    /\ \E m \in Inbound :
         LET msg == [message_id |-> received + 1, text |-> m.text,
                     user |-> m.user, chat |-> m.chat]
         IN tasks' = [tasks EXCEPT ![h] = NewTask(Resolve(m.text), msg)]
    /\ received' = received + 1
    /\ UNCHANGED <<mainPc, pool, stats, nextId, processed>>

\* The task in slot h makes call `entry` and goes to pc.
Step(t, pc, entry) == [t EXCEPT !.pc = pc, !.calls = Append(@, entry)]
\* The call raised and nothing catches it: the exception leaves the handler.
Raise(t, op) == [t EXCEPT !.pc = "raised", !.e = op, !.calls = Append(@, Call(op, FALSE, << >>))]
\* The call raised inside a try block: control goes to the except clause.
Catch(t, pc, op) == [t EXCEPT !.pc = pc, !.e = op, !.calls = Append(@, Call(op, FALSE, << >>))]

\* --------------------------------------------------------------- cmd_start
\* await message.answer("Merhaba! ...")
StartAnswer(h) ==
    /\ tasks[h].pc = "start_answer"
    /\ \E ok \in BOOLEAN :
         tasks' = [tasks EXCEPT ![h] =
                     IF ok THEN Step(@, "done", Call("answer", TRUE, <<"welcome">>))
                     ELSE Raise(@, "answer")]
    /\ UNCHANGED <<mainPc, pool, stats, nextId, received, processed>>

\* ---------------------------------------------------------------- cmd_info
\* Faulty variant: every chat that is not a channel is counted, a private one too.
InfoBranch_CountAll(chat_type) == IF chat_type = "channel" THEN "channel" ELSE "group"

\* Which branch of cmd_info a chat type takes.
InfoBranch(chat_type) ==
    IF chat_type \in {"group", "supergroup"} THEN "group"
    ELSE IF chat_type = "channel" THEN "channel"
    ELSE "other"

\* The text cmd_info answers with once the lookups are done.
InfoReply(chat_type, count) ==
    CASE InfoBranch(chat_type) = "group" -> <<"group_count", count>>
      [] InfoBranch(chat_type) = "channel" -> <<"channel_count", count>>
      [] OTHER -> <<"group_only">>

\* chat = await bot.get_chat(message.chat.id)
InfoGetChat(h) ==
    /\ tasks[h].pc = "get_chat"
    /\ \/ \E ty \in ChatTypes :
            tasks' = [tasks EXCEPT ![h] =
                [Step(@, IF InfoBranch(ty) = "other" THEN "info_answer"
                         ELSE "get_chat_member_count",
                      Call("get_chat", TRUE, <<ty>>)) EXCEPT !.chat_type = ty]]
       \/ tasks' = [tasks EXCEPT ![h] = Catch(@, "info_except", "get_chat")]
    /\ UNCHANGED <<mainPc, pool, stats, nextId, received, processed>>

\* count = await bot.get_chat_member_count(message.chat.id)
InfoGetCount(h) ==
    /\ tasks[h].pc = "get_chat_member_count"
    /\ \/ \E c \in Counts :
            tasks' = [tasks EXCEPT ![h] =
                [Step(@, "info_answer", Call("get_chat_member_count", TRUE, <<c>>))
                   EXCEPT !.count = c]]
       \/ tasks' = [tasks EXCEPT ![h] = Catch(@, "info_except", "get_chat_member_count")]
    /\ UNCHANGED <<mainPc, pool, stats, nextId, received, processed>>

\* await message.answer(...) in one of the three branches
InfoAnswer(h) ==
    /\ tasks[h].pc = "info_answer"
    /\ \/ tasks' = [tasks EXCEPT ![h] =
            Step(@, "done", Call("answer", TRUE, InfoReply(@.chat_type, @.count)))]
       \/ tasks' = [tasks EXCEPT ![h] = Catch(@, "info_except", "answer")]
    /\ UNCHANGED <<mainPc, pool, stats, nextId, received, processed>>

\* except Exception as e: await message.answer(f"Hata: {e}")
InfoExcept(h) ==
    /\ tasks[h].pc = "info_except"
    /\ \/ tasks' = [tasks EXCEPT ![h] =
            Step(@, "done", Call("answer", TRUE, <<"info_error", @.e>>))]
       \/ tasks' = [tasks EXCEPT ![h] = Raise(@, "answer")]
    /\ UNCHANGED <<mainPc, pool, stats, nextId, received, processed>>

\* -------------------------------------------------------------- moderation
\* Faulty variant: the duration is taken as minutes, not seconds.
BanUntil_Minutes(now) == now + 4 * 60

\* until_date = datetime.now() + timedelta(seconds=BAN_DURATION)
BanUntil(now) == now + BAN_DURATION

\* member = await bot.get_chat_member(message.chat.id, message.from_user.id)
ModGetMember(h) ==
    /\ tasks[h].pc = "get_chat_member"
    /\ \/ \E st \in Roles :
            tasks' = [tasks EXCEPT ![h] =
                [Step(@, IF Exempt(st) THEN "fetchrow" ELSE "delete_message",
                      Call("get_chat_member", TRUE, <<st>>)) EXCEPT !.status = st]]
       \/ tasks' = [tasks EXCEPT ![h] = Raise(@, "get_chat_member")]
    /\ UNCHANGED <<mainPc, pool, stats, nextId, received, processed>>

\* Faulty variant: the delete has a try of its own, so a failed delete is
\* followed by the ban all the same.
ModDelete_BanAnyway(h) ==
    /\ tasks[h].pc = "delete_message"
    /\ \/ tasks' = [tasks EXCEPT ![h] =
            Step(@, "ban_chat_member",
                 Call("delete_message", TRUE, <<@.msg.chat, @.msg.message_id>>))]
       \/ tasks' = [tasks EXCEPT ![h] = Catch(@, "ban_chat_member", "delete_message")]
    /\ UNCHANGED <<mainPc, pool, stats, nextId, received, processed>>

\* await bot.delete_message(message.chat.id, message.message_id)
ModDelete(h) ==
    /\ tasks[h].pc = "delete_message"
    /\ \/ tasks' = [tasks EXCEPT ![h] =
            Step(@, "ban_chat_member",
                 Call("delete_message", TRUE, <<@.msg.chat, @.msg.message_id>>))]
       \/ tasks' = [tasks EXCEPT ![h] = Catch(@, "fetchrow", "delete_message")]
    /\ UNCHANGED <<mainPc, pool, stats, nextId, received, processed>>

\* Faulty variant: the ban is awaited outside the try, so its exception
\* leaves the handler.
ModBan_Uncaught(h) ==
    /\ tasks[h].pc = "ban_chat_member"
    /\ \/ \E now \in Times :
            tasks' = [tasks EXCEPT ![h] =
                Step(@, "mod_answer",
                     Call("ban_chat_member", TRUE,
                          <<@.msg.chat, @.msg.user, BanUntil(now), now>>))]
       \/ tasks' = [tasks EXCEPT ![h] = Raise(@, "ban_chat_member")]
    /\ UNCHANGED <<mainPc, pool, stats, nextId, received, processed>>

\* await bot.ban_chat_member(chat.id, from_user.id, until_date=until_date);
\* now is what datetime.now() returns, also recorded as the time of the ban.
ModBan(h) ==
    /\ tasks[h].pc = "ban_chat_member"
    /\ \/ \E now \in Times :
            tasks' = [tasks EXCEPT ![h] =
                Step(@, "mod_answer",
                     Call("ban_chat_member", TRUE,
                          <<@.msg.chat, @.msg.user, BanUntil(now), now>>))]
       \/ tasks' = [tasks EXCEPT ![h] = Catch(@, "fetchrow", "ban_chat_member")]
    /\ UNCHANGED <<mainPc, pool, stats, nextId, received, processed>>

\* await message.answer(f"... küfür ettiği için 4 saat banlandı.")
ModAnswer(h) ==
    /\ tasks[h].pc = "mod_answer"
    /\ \/ tasks' = [tasks EXCEPT ![h] =
            Step(@, "fetchrow", Call("answer", TRUE, <<"ban_notice", @.msg.user>>))]
       \/ tasks' = [tasks EXCEPT ![h] = Catch(@, "fetchrow", "answer")]
    /\ UNCHANGED <<mainPc, pool, stats, nextId, received, processed>>

\* ------------------------------------------------------------ update_stats
\* The rows SELECT id FROM stats WHERE user_id=$1 AND chat_id=$2 matches.
Matching(user, chat) == {r \in stats : r.user_id = user /\ r.chat_id = chat}

\* async with pool.acquire() as conn: row = await conn.fetchrow("SELECT id ...")
\* The connection is taken from the pool (an AttributeError while pool is
\* None) and the SELECT returns one matching row, or None.
StatsFetchrow(h) ==
    /\ tasks[h].pc = "fetchrow"
    /\ \/ /\ pool # "None"
          /\ \E r \in Matching(tasks[h].msg.user, tasks[h].msg.chat) :
               tasks' = [tasks EXCEPT ![h] =
                   [Step(@, "execute", Call("fetchrow", TRUE, <<r.id>>)) EXCEPT !.row = r.id]]
       \/ /\ pool # "None"
          /\ Matching(tasks[h].msg.user, tasks[h].msg.chat) = {}
          /\ tasks' = [tasks EXCEPT ![h] = Step(@, "execute", Call("fetchrow", TRUE, << >>))]
       \/ tasks' = [tasks EXCEPT ![h] = Raise(@, "fetchrow")]
    /\ UNCHANGED <<mainPc, pool, stats, nextId, received, processed>>

\* UPDATE stats SET message_count = message_count + 1 ... WHERE id=$1
UpdateRow(id) ==
    {IF r.id = id THEN [r EXCEPT !.message_count = @ + 1] ELSE r : r \in stats}

\* Faulty variant: the INSERT leaves message_count to its DEFAULT 0.
InsertRow_DefaultCount(user, chat) ==
    stats \cup {[id |-> nextId, user_id |-> user, chat_id |-> chat, message_count |-> 0]}

\* INSERT INTO stats (user_id, chat_id, message_count) VALUES ($1, $2, 1)
InsertRow(user, chat) ==
    stats \cup {[id |-> nextId, user_id |-> user, chat_id |-> chat, message_count |-> 1]}

\* if row: await conn.execute(UPDATE) else: await conn.execute(INSERT)
StatsExecute(h) ==
    /\ tasks[h].pc = "execute"
    /\ LET t == tasks[h]
           pair == <<t.msg.user, t.msg.chat>>
       IN \/ /\ t.row # 0
             /\ stats' = UpdateRow(t.row)
             /\ nextId' = nextId
             /\ processed' = [processed EXCEPT ![pair] = @ + 1]
             /\ tasks' = [tasks EXCEPT ![h] = Step(@, "done", Call("execute", TRUE, <<"UPDATE", t.row>>))]
          \/ /\ t.row = 0
             /\ stats' = InsertRow(t.msg.user, t.msg.chat)
             /\ nextId' = nextId + 1
             /\ processed' = [processed EXCEPT ![pair] = @ + 1]
             /\ tasks' = [tasks EXCEPT ![h] = Step(@, "done", Call("execute", TRUE, <<"INSERT">>))]
          \/ /\ tasks' = [tasks EXCEPT ![h] = Raise(@, "execute")]
             /\ UNCHANGED <<stats, nextId, processed>>
    /\ UNCHANGED <<mainPc, pool, received>>

\* ---------------------------------------------------------------- cmd_edit
\* return await message.answer("Bu komut sadece yöneticiler içindir.")
EditReject(h) ==
    /\ tasks[h].pc = "edit_reject"
    /\ \/ tasks' = [tasks EXCEPT ![h] = Step(@, "done", Call("answer", TRUE, <<"admin_only">>))]
       \/ tasks' = [tasks EXCEPT ![h] = Raise(@, "answer")]
    /\ UNCHANGED <<mainPc, pool, stats, nextId, received, processed>>

\* return await message.answer("Lütfen düzenlenecek bir metin girin.")
EditEnterText(h) ==
    /\ tasks[h].pc = "edit_enter_text"
    /\ \/ tasks' = [tasks EXCEPT ![h] = Step(@, "done", Call("answer", TRUE, <<"enter_text">>))]
       \/ tasks' = [tasks EXCEPT ![h] = Raise(@, "answer")]
    /\ UNCHANGED <<mainPc, pool, stats, nextId, received, processed>>

\* response = model.generate_content(...) (a blocking call), then
\* await bot.send_message(ADMIN_ID, ...)
EditGenerate(h) ==
    /\ tasks[h].pc = "edit_generate"
    /\ \/ \E edited \in AiTexts :
            LET gen == Call("generate_content", TRUE, <<EditText(tasks[h].msg.text), edited>>)
            IN \/ tasks' = [tasks EXCEPT ![h] =
                      Step(Step(@, "edit_generate", gen), "done",
                           Call("send_message", TRUE, <<ADMIN_ID, edited>>))]
               \/ tasks' = [tasks EXCEPT ![h] =
                      Catch(Step(@, "edit_generate", gen), "edit_except", "send_message")]
       \/ tasks' = [tasks EXCEPT ![h] = Catch(@, "edit_except", "generate_content")]
    /\ UNCHANGED <<mainPc, pool, stats, nextId, received, processed>>

\* except Exception as e: await message.answer(f"Düzenleme hatası: {e}")
EditExcept(h) ==
    /\ tasks[h].pc = "edit_except"
    /\ \/ tasks' = [tasks EXCEPT ![h] = Step(@, "done", Call("answer", TRUE, <<"edit_error", @.e>>))]
       \/ tasks' = [tasks EXCEPT ![h] = Raise(@, "answer")]
    /\ UNCHANGED <<mainPc, pool, stats, nextId, received, processed>>

\* cmd_edit called directly with a message, as a test of the handler alone
\* does, without the dispatcher choosing it.
Invoke(h) ==
    /\ PollingStarted
    /\ received < MaxMsgs
    /\ FreeSlot(h)
    /\ \E m \in Inbound :
         LET msg == [message_id |-> received + 1, text |-> m.text,
                     user |-> m.user, chat |-> m.chat]
         IN tasks' = [tasks EXCEPT ![h] = NewTask("cmd_edit", msg)]
    /\ received' = received + 1
    /\ UNCHANGED <<mainPc, pool, stats, nextId, processed>>

\* ---------------------------------------------------------- specifications
Next ==
    \/ CreatePool
    \/ CreateTable
    \/ \E h \in Slots :
         \/ Dispatch(h)
         \/ StartAnswer(h)
         \/ InfoGetChat(h)
         \/ InfoGetCount(h)
         \/ InfoAnswer(h)
         \/ InfoExcept(h)
         \/ ModGetMember(h)
         \/ ModDelete(h)
         \/ ModBan(h)
         \/ ModAnswer(h)
         \/ StatsFetchrow(h)
         \/ StatsExecute(h)

\* The program: main(), the dispatcher and the handlers it can reach.
Spec == Init /\ [][Next]_vars

NextEdit ==
    \/ CreatePool
    \/ CreateTable
    \/ \E h \in Slots :
         \/ Invoke(h)
         \/ EditReject(h)
         \/ EditEnterText(h)
         \/ EditGenerate(h)
         \/ EditExcept(h)

\* The cmd_edit handler on its own, called with every message.
SpecEdit == Init /\ [][NextEdit]_vars

\* ------------------------------------------------------------------ claims
\* Reading a task's calls.
Entries(t, op) == {i \in DOMAIN t.calls : t.calls[i].op = op}
Has(t, op) == Entries(t, op) # {}
HasOk(t, op) == \E i \in Entries(t, op) : t.calls[i].ok
HasFail(t, op) == \E i \in Entries(t, op) : ~t.calls[i].ok
Answered(t, kind) == \E i \in Entries(t, "answer") : t.calls[i].ok /\ t.calls[i].val[1] = kind

\* The sample texts by what they are, read off the texts themselves.
FlaggedTexts == {T_bad, T_start_bad}
EditCommands == {T_edit, T_edit_text}
NotExemptRoles == Roles \ {"administrator", "creator"}

\* C1 as stated: every flagged message of a sender who is neither
\* administrator nor creator ends deleted, with the sender banned until
\* exactly BAN_DURATION after the ban.
C1_FlaggedEndsDeletedAndBanned ==
    \A h \in Slots :
      LET t == tasks[h] IN
        (Ended(t) /\ t.msg.text \in FlaggedTexts /\ t.status \in NotExemptRoles)
        => /\ HasOk(t, "delete_message")
           /\ \E i \in Entries(t, "ban_chat_member") :
                t.calls[i].ok /\ t.calls[i].val[3] = t.calls[i].val[4] + BAN_DURATION

\* C1 amended: a flagged message given to the moderation handler starts with
\* the role lookup; when the role is neither administrator nor creator the
\* delete is attempted, the ban is attempted exactly when the delete
\* succeeded, and a ban that succeeds expires exactly BAN_DURATION after the
\* time read when it is issued.
C1_DeleteThenBanForDuration ==
    \A h \in Slots :
      LET t == tasks[h] IN
        (t.handler = "moderation" /\ t.msg.text \in FlaggedTexts)
        => /\ t.calls # << >> => t.calls[1].op = "get_chat_member"
           /\ (t.status \in NotExemptRoles /\ Ended(t))
              => /\ Has(t, "delete_message")
                 /\ HasOk(t, "delete_message") <=> Has(t, "ban_chat_member")
           /\ \A i \in Entries(t, "ban_chat_member") :
                /\ t.status \in NotExemptRoles
                /\ t.calls[i].ok =>
                     /\ t.calls[i].val[1] = t.msg.chat
                     /\ t.calls[i].val[2] = t.msg.user
                     /\ t.calls[i].val[3] = t.calls[i].val[4] + BAN_DURATION

\* C1 witness: a flagged message handled to the end, deleted, its sender banned.
C1_Witness ==
    \E h \in Slots :
      /\ tasks[h].pc = "done"
      /\ tasks[h].msg.text = T_bad
      /\ HasOk(tasks[h], "delete_message")
      /\ HasOk(tasks[h], "ban_chat_member")

\* C2: a flagged message whose sender is administrator or creator is never
\* deleted and its sender never banned.
C2_AdminsNeverModerated ==
    \A h \in Slots :
      LET t == tasks[h] IN
        (t.msg.text \in FlaggedTexts /\ t.status \in {"administrator", "creator"})
        => ~Has(t, "delete_message") /\ ~Has(t, "ban_chat_member")

\* C2 witness: the creator's flagged message handled to the end.
C2_Witness ==
    \E h \in Slots :
      /\ tasks[h].pc = "done"
      /\ tasks[h].msg.text = T_bad
      /\ tasks[h].status = "creator"

\* C3 as stated: after N update_stats calls for a pair ran to completion, the
\* message_count stored for the pair is N, under every interleaving.
C3_CountEqualsProcessed ==
    \A p \in Pairs :
      processed[p] > 0
      => /\ Matching(p[1], p[2]) # {}
         /\ \A r \in Matching(p[1], p[2]) : r.message_count = processed[p]

\* C4 as stated: the stats table never holds two rows for one pair.
C4_OneRowPerPair ==
    \A p \in Pairs : Cardinality(Matching(p[1], p[2])) <= 1

\* C5 as stated: an /edit message from a sender other than ADMIN_ID is
\* answered with the admin-only notice and the AI service is not called.
C5_NonAdminEditRejected ==
    \A h \in Slots :
      LET t == tasks[h] IN
        (t.pc = "done" /\ t.msg.text \in EditCommands /\ t.msg.user # ADMIN_ID)
        => Answered(t, "admin_only") /\ ~Has(t, "generate_content")

\* C6 as stated: an /edit message from ADMIN_ID with text calls the AI once
\* and sends the result to ADMIN_ID; without text it is answered with the
\* enter-text notice and the AI is not called.
C6_AdminEditRewrites ==
    \A h \in Slots :
      LET t == tasks[h] IN
        (t.pc = "done" /\ t.msg.text \in EditCommands /\ t.msg.user = ADMIN_ID)
        => IF t.msg.text = T_edit_text
           THEN /\ Cardinality(Entries(t, "generate_content")) = 1
                /\ \E i \in Entries(t, "send_message") :
                     t.calls[i].ok /\ t.calls[i].val[1] = ADMIN_ID
           ELSE Answered(t, "enter_text") /\ ~Has(t, "generate_content")

ModerationCalls == {"get_chat_member", "delete_message", "ban_chat_member", "answer"}

\* C7 as stated: every message with text the moderation handler handles
\* leads to exactly one update_stats call, begun after every moderation call.
C7_OneStatsUpdateAfterModeration ==
    \A h \in Slots :
      LET t == tasks[h] IN
        (Ended(t) /\ t.handler = "moderation" /\ t.msg.text # << >>)
        => /\ Cardinality(Entries(t, "fetchrow")) = 1
           /\ \A i \in Entries(t, "fetchrow"), j \in DOMAIN t.calls :
                t.calls[j].op \in ModerationCalls => j < i

\* What the platform told the task: the chat type and the member count.
ReportedTypes(t) == {t.calls[i].val[1] : i \in {j \in Entries(t, "get_chat") : t.calls[j].ok}}
ReportedCounts(t) ==
    {t.calls[i].val[1] : i \in {j \in Entries(t, "get_chat_member_count") : t.calls[j].ok}}
NoCallFailed(t) == \A i \in DOMAIN t.calls : t.calls[i].ok
\* The answers a task sent other than its report of an error.
Replies(t) ==
    {t.calls[i].val : i \in {j \in Entries(t, "answer") :
                                t.calls[j].ok /\ t.calls[j].val[1] # "info_error"}}

\* C8: /info in a group or supergroup answers with exactly the member count
\* the platform returned; in a private chat it answers with the group-only
\* notice and looks up no member count.
C8_InfoReply ==
    \A h \in Slots :
      LET t == tasks[h] IN
        t.handler = "cmd_info" =>
          /\ \A ty \in ReportedTypes(t) \cap {"group", "supergroup"} :
               /\ \A c \in ReportedCounts(t) : Replies(t) \subseteq {<<"group_count", c>>}
               /\ ReportedCounts(t) = {} => Replies(t) = {}
               /\ (t.pc = "done" /\ NoCallFailed(t)) => Replies(t) # {}
          /\ "private" \in ReportedTypes(t) =>
               /\ ~Has(t, "get_chat_member_count")
               /\ Replies(t) \subseteq {<<"group_only">>}
               /\ (t.pc = "done" /\ NoCallFailed(t)) => Replies(t) # {}

\* C8 witness: one /info answered in a supergroup with the count returned,
\* and one answered in a private chat.
C8_Witness ==
    \E g, h \in Slots :
      /\ "supergroup" \in ReportedTypes(tasks[g])
      /\ 5 \in ReportedCounts(tasks[g])
      /\ <<"group_count", 5>> \in Replies(tasks[g])
      /\ "private" \in ReportedTypes(tasks[h])
      /\ <<"group_only">> \in Replies(tasks[h])

PlatformCalls ==
    {"get_chat", "get_chat_member", "get_chat_member_count", "answer", "send_message"}

\* C9 as stated: a failed platform call never leaves the handler that made
\* it; the handler answers with the error and returns normally.
C9_PlatformErrorsReported ==
    \A h \in Slots :
      LET t == tasks[h] IN
        /\ t.pc = "raised" => t.e \notin PlatformCalls
        /\ t.pc = "done" =>
             \A i \in DOMAIN t.calls :
               (t.calls[i].op \in PlatformCalls /\ ~t.calls[i].ok)
               => \E j \in Entries(t, "answer") :
                    /\ j > i /\ t.calls[j].ok
                    /\ t.calls[j].val[1] \in {"info_error", "edit_error"}
                    /\ t.calls[j].val[2] = t.calls[i].op

\* C10: no handler runs, and so no update_stats, before init_db() has
\* completed; once init_db() has failed nothing runs any more.
C10_InitBeforeHandlers ==
    /\ [](\A h \in Slots : tasks[h] # IdleTask => mainPc = "polling" /\ pool = "pool")
    /\ [](mainPc = "crashed" => received = 0 /\ stats = {})
    /\ [][mainPc = "crashed" => mainPc' = "crashed"]_vars

\* C10 witness: update_stats has run to completion, after init_db().
C10_Witness ==
    /\ mainPc = "polling"
    /\ \E h \in Slots : HasOk(tasks[h], "execute")

\* The handler the control flow names for each sample text, read off the text.
ExpectedHandler(text) ==
    IF text \in {T_start, T_start_bad} THEN "cmd_start"
    ELSE IF text = T_info THEN "cmd_info"
    ELSE IF text \in EditCommands THEN "cmd_edit"
    ELSE "moderation"

\* C11 as stated: every message is handled by the one handler the control
\* flow names: /start by cmd_start, /info by cmd_info, /edit by cmd_edit, and
\* only a message that is none of these commands by moderation.
C11_HandledByNamedHandler ==
    \A h \in Slots :
      tasks[h] # IdleTask => tasks[h].handler = ExpectedHandler(tasks[h].msg.text)

\* The ban notices a task has tried to post.
Notices(t) == {i \in Entries(t, "answer") : t.handler = "moderation"}

\* C12: for a flagged message of a sender who is neither administrator nor
\* creator the delete, the ban and the notice happen in this order, each at
\* most once; the ban only after the delete succeeded, the notice only
\* after the ban succeeded.
C12_DeleteBanNoticeInOrder ==
    \A h \in Slots :
      LET t == tasks[h] IN
        (t.msg.text \in FlaggedTexts /\ t.status \in NotExemptRoles)
        => /\ Cardinality(Entries(t, "delete_message")) <= 1
           /\ Cardinality(Entries(t, "ban_chat_member")) <= 1
           /\ Cardinality(Notices(t)) <= 1
           /\ \A i \in Entries(t, "ban_chat_member") :
                \E j \in Entries(t, "delete_message") : j < i /\ t.calls[j].ok
           /\ \A i \in Notices(t) :
                \E j \in Entries(t, "ban_chat_member") : j < i /\ t.calls[j].ok
           /\ t.pc = "ban_chat_member" => HasOk(t, "delete_message")
           /\ t.pc = "mod_answer" => HasOk(t, "ban_chat_member")

\* C12 witness: a flagged message deleted, its sender banned, the notice posted.
C12_Witness ==
    \E h \in Slots :
      LET t == tasks[h] IN
        /\ t.msg.text = T_bad
        /\ HasOk(t, "delete_message")
        /\ HasOk(t, "ban_chat_member")
        /\ Answered(t, "ban_notice")

\* C13: a failed delete or ban is caught inside the moderation handler: no
\* notice is posted, neither call is made again, the handler does not abort
\* and it goes on to update_stats.
C13_FailedActionSwallowed ==
    \A h \in Slots :
      LET t == tasks[h] IN
        \A i \in DOMAIN t.calls :
          (t.calls[i].op \in {"delete_message", "ban_chat_member"} /\ ~t.calls[i].ok)
          => /\ Notices(t) = {}
             /\ Cardinality(Entries(t, "delete_message")) <= 1
             /\ Cardinality(Entries(t, "ban_chat_member")) <= 1
             /\ ~(t.pc = "raised" /\ t.e \in {"delete_message", "ban_chat_member"})
             /\ IF i = Len(t.calls) THEN t.pc = "fetchrow"
                ELSE t.calls[i + 1].op = "fetchrow"

\* C13 witness: the ban failed and the stats were updated all the same.
C13_Witness ==
    \E h \in Slots :
      /\ tasks[h].pc = "done"
      /\ HasFail(tasks[h], "ban_chat_member")
      /\ HasOk(tasks[h], "execute")

RECURSIVE SumCounts(_)
SumCounts(rows) ==
    IF rows = {} THEN 0
    ELSE LET r == CHOOSE x \in rows : TRUE
         IN r.message_count + SumCounts(rows \ {r})

\* The message_count a table holds for a pair, over all its rows.
TotalOf(table, p) == SumCounts({r \in table : r.user_id = p[1] /\ r.chat_id = p[2]})

\* The tasks whose update_stats call for pair p completes in this step.
Completing(p) ==
    {h \in Slots : /\ tasks[h].pc = "execute"
                   /\ tasks'[h].pc = "done"
                   /\ <<tasks[h].msg.user, tasks[h].msg.chat>> = p}

\* C14: in every step the total message_count of a pair grows by exactly 1
\* for each update_stats call for the pair that completes in the step and
\* by nothing else, so it never decreases; and no row is ever deleted.
C14_TotalGrowsByCompletedCalls ==
    [][ /\ \A p \in Pairs :
             TotalOf(stats', p) = TotalOf(stats, p) + Cardinality(Completing(p))
        /\ \A r \in stats :
             \E q \in stats' : /\ q.id = r.id
                               /\ q.user_id = r.user_id
                               /\ q.chat_id = r.chat_id
                               /\ q.message_count >= r.message_count ]_vars

\* C14 witness: a second update_stats call for a pair has raised its count.
C14_Witness == \E r \in stats : r.message_count = 2

\* C15 as stated: when generate_content or the delivery of its result fails
\* inside cmd_edit, the error is caught, the caller gets a reply carrying
\* the error, the call is not made again and the handler returns normally.
C15_EditErrorReported ==
    \A h \in Slots :
      LET t == tasks[h] IN
        \A i \in DOMAIN t.calls :
          (t.handler = "cmd_edit"
             /\ t.calls[i].op \in {"generate_content", "send_message"} /\ ~t.calls[i].ok)
          => /\ Cardinality(Entries(t, "generate_content")) <= 1
             /\ Cardinality(Entries(t, "send_message")) <= 1
             /\ t.pc \in {"edit_except", "done"}
             /\ t.pc = "done" =>
                  \E j \in Entries(t, "answer") :
                    j > i /\ t.calls[j].ok /\ t.calls[j].val = <<"edit_error", t.calls[i].op>>

\* The part of C15 that holds: the error is caught and reported by one
\* answer; only an exception of that answer itself leaves the handler.
C15_EditErrorCaught ==
    \A h \in Slots :
      LET t == tasks[h] IN
        \A i \in DOMAIN t.calls :
          (t.handler = "cmd_edit"
             /\ t.calls[i].op \in {"generate_content", "send_message"} /\ ~t.calls[i].ok)
          => /\ Cardinality(Entries(t, "generate_content")) <= 1
             /\ Cardinality(Entries(t, "send_message")) <= 1
             /\ t.pc \in {"edit_except", "done", "raised"}
             /\ t.pc = "raised" => t.e = "answer" /\ i + 1 = Len(t.calls)
             /\ t.pc = "done" =>
                  /\ i + 1 = Len(t.calls)
                  /\ t.calls[i + 1] = Call("answer", TRUE, <<"edit_error", t.calls[i].op>>)

\* C16: a message whose lowercased text holds no banned substring never
\* causes a role lookup, a delete, a ban or a ban notice, whoever sent it;
\* in the moderation handler its only calls are those of update_stats.
C16_CleanTextOnlyCounted ==
    \A h \in Slots :
      LET t == tasks[h] IN
        (t # IdleTask /\ t.msg.text \notin FlaggedTexts)
        => /\ \A i \in DOMAIN t.calls :
                /\ t.calls[i].op \notin {"get_chat_member", "delete_message", "ban_chat_member"}
                /\ ~(t.calls[i].op = "answer" /\ t.calls[i].ok /\ t.calls[i].val[1] = "ban_notice")
           /\ t.status = ""
           /\ t.handler = "moderation" =>
                \A i \in DOMAIN t.calls : t.calls[i].op \in {"fetchrow", "execute"}

\* C16 witness: clean messages of the admin and of another sender, counted.
C16_Witness ==
    \E g, h \in Slots :
      /\ tasks[g].msg.text = T_clean /\ tasks[g].msg.user = ADMIN_ID
      /\ tasks[h].msg.text = T_clean /\ tasks[h].msg.user # ADMIN_ID
      /\ HasOk(tasks[g], "execute") /\ HasOk(tasks[h], "execute")

StartInfoTexts == {T_start, T_start_bad, T_info}
StatsCalls == {"fetchrow", "execute"}

\* The slots whose task takes a step, or is created, in this step.
Stepping == {h \in Slots : tasks'[h] # tasks[h]}

\* C17: handling a /start or an /info message leaves the stats table as it
\* is: its task makes no update_stats call and no step of it changes a row
\* or a count.
C17_StartInfoNotCounted ==
    /\ [](\A h \in Slots :
            tasks[h].msg.text \in StartInfoTexts
            => \A i \in DOMAIN tasks[h].calls : tasks[h].calls[i].op \notin StatsCalls)
    /\ [][\A h \in Stepping :
            tasks'[h].msg.text \in StartInfoTexts
            => stats' = stats /\ nextId' = nextId /\ processed' = processed]_vars

\* C17 witness: a /start and an /info message both handled to the end.
C17_Witness ==
    \E g, h \in Slots :
      /\ tasks[g].msg.text = T_start /\ tasks[g].pc = "done"
      /\ tasks[h].msg.text = T_info /\ tasks[h].pc = "done"

\* C18: a message without text that reaches the moderation handler makes no
\* call at all and leaves the stats table as it is: the handler returns at
\* once.
C18_NoTextNoEffect ==
    /\ [](\A h \in Slots :
            (tasks[h].handler = "moderation" /\ tasks[h].msg.text = << >>)
            => tasks[h].pc = "done" /\ tasks[h].calls = << >>)
    /\ [][\A h \in Stepping :
            (tasks'[h].handler = "moderation" /\ tasks'[h].msg.text = << >>)
            => stats' = stats /\ nextId' = nextId /\ processed' = processed]_vars

\* C18 witness: a message without text has been through the moderation handler.
C18_Witness ==
    \E h \in Slots :
      /\ tasks[h].handler = "moderation"
      /\ tasks[h].msg.message_id > 0
      /\ tasks[h].msg.text = << >>
      /\ tasks[h].pc = "done"

====
